---- MODULE Spec2Model ----
(***************************************************************************)
(* Control plane of the agent API: the Change ledger (agent_changes), the  *)
(* submission routes of routes/agent.ts and the approval routes of         *)
(* routes/admin.ts, with CONFIG_KV as the store the Executor writes.       *)
(*                                                                         *)
(* Every awaited D1 statement and every awaited KV call is one atomic      *)
(* step; a handler with several awaits is a process whose steps interleave *)
(* with the steps of the other requests.                                   *)
(***************************************************************************)
EXTENDS Integers, Sequences, FiniteSets, TLC

\* ---------------------------------------------------------------- bounds
MaxSubmits == 1      \* agent submissions (calls of nanoid() for a changeId)
NumApprovers == 2    \* approve requests that may be in flight at once
MaxTime == 2         \* last value of the clock
MaxTasks == 2        \* task ids handed out (calls of nanoid() for a taskId)
MaxDeliveries == 4   \* deliveries of one message before the queue drops it
MaxBatch == 2        \* messages the queue hands over in one batch

\* ---------------------------------------------------------- configuration
\* routes/agent.ts AGENT_CONFIG: static risk class per agent
AGENT_CONFIG ==
  [ ContentAgent   |-> [secret |-> "CONTENTAGENT_API_KEY",   riskLevel |-> "medium"],
    SEOAgent       |-> [secret |-> "SEOAGENT_API_KEY",       riskLevel |-> "low"],
    OpsAgent       |-> [secret |-> "OPSAGENT_API_KEY",       riskLevel |-> "low"],
    CommerceAgent  |-> [secret |-> "COMMERCEAGENT_API_KEY",  riskLevel |-> "high"],
    CommunityAgent |-> [secret |-> "COMMUNITYAGENT_API_KEY", riskLevel |-> "medium"] ]

\* the agents that submit in the model: one per risk class
Agents == {"ContentAgent", "OpsAgent", "CommerceAgent"}

\* flag keys submitted in the model, and the text of each
FlagKeys == {"production.maintenance_mode", "prod.critical.flag", "ui.banner"}

Chars(s) ==
  CASE s = "production.maintenance_mode" ->
         <<"p","r","o","d","u","c","t","i","o","n",".","m","a","i","n","t","e",
           "n","a","n","c","e","_","m","o","d","e">>
    [] s = "prod.critical.flag" ->
         <<"p","r","o","d",".","c","r","i","t","i","c","a","l",".","f","l","a","g">>
    [] s = "ui.banner"  -> <<"u","i",".","b","a","n","n","e","r">>
    [] s = "production" -> <<"p","r","o","d","u","c","t","i","o","n">>
    [] s = "critical"   -> <<"c","r","i","t","i","c","a","l">>

\* String.prototype.includes
includes(s, sub) ==
  \E i \in 0..(Len(Chars(s)) - Len(Chars(sub))) :
     SubSeq(Chars(s), i + 1, i + Len(Chars(sub))) = Chars(sub)

\* flag values: a JSON boolean and a JSON string
Values == { [t |-> "boolean", v |-> "true"], [t |-> "string", v |-> "on"] }

\* JSON.stringify of a flag value
JSONstringify(x) == IF x.t = "string" THEN "\"" \o x.v \o "\"" ELSE x.v

ContentPaths == {"blog/post.md"}
Reasons == {"unsafe"}

Null == 0                 \* a NULL timestamp column (the clock starts at 1)
NullText == "NULL"        \* a NULL text column
Ids == 1..MaxSubmits      \* the ids nanoid() hands out, in order
Approvers == 1..NumApprovers

VARIABLES
  agentChanges,   \* table agent_changes: id -> row
  featureFlags,   \* table feature_flags: rows in insertion order
  CONFIG_KV,      \* KV namespace: flag key -> stored text
  nextId,         \* the next id nanoid() returns
  now,            \* the clock
  pc,             \* approve request p: position in the handler
  change,         \* approve request p: the row it selected (change[0])
  response,       \* the last HTTP response sent
  executorCalls,  \* history: calls of executeAgentChange per Change id
  kvWrites,       \* history: CONFIG_KV.put calls made for a submission id
  decided,        \* history: the decisions requested on each Change
  env,            \* Worker bindings: secret name -> value
  request,        \* the agent request being verified: headers and raw body
  outcome,        \* what verifyHMAC did with it
  agentTasks,     \* table agent_tasks: id -> row
  JOBS_QUEUE,     \* the queue: messages waiting for delivery
  nextTask,       \* the next id nanoid() returns for a task
  consumer,       \* handleQueueBatch: the batch in hand and the position in it
  acked,          \* history: per message id, "ack" / "retry" calls in order
  cron            \* processScheduledTasks: the rows selected and the position

\* the state of the Change ledger and of the approval requests
ledgerVars == <<agentChanges, featureFlags, CONFIG_KV, nextId, pc, change,
                response, executorCalls, kvWrites, decided>>

\* the state verifyHMAC reads and writes
authVars == <<env, request, outcome>>

\* the state of the task queue and of its consumer
queueVars == <<agentTasks, JOBS_QUEUE, nextTask, consumer, acked, cron>>

vars == <<agentChanges, featureFlags, CONFIG_KV, nextId, now, pc, change,
          response, executorCalls, kvWrites, decided, env, request, outcome,
          agentTasks, JOBS_QUEUE, nextTask, consumer, acked, cron>>

\* ------------------------------------------------------------- verifyHMAC
\* JavaScript undefined (a header that was not sent, a binding that is unset)
Undefined == "<undefined>"

\* a header whose value is a character sequence, when it was not sent
Absent == <<"<absent>">>

\* !x for the agent id header (a string) and for the other two headers
missingText(x) == x = Undefined \/ x = ""
missingChars(x) == x = Absent \/ x = <<>>

DecDigits == <<"0", "1", "2", "3", "4", "5", "6", "7", "8", "9">>
HexDigits == <<"0", "1", "2", "3", "4", "5", "6", "7", "8", "9",
               "a", "b", "c", "d", "e", "f">>
UpperHexDigits == <<"0", "1", "2", "3", "4", "5", "6", "7", "8", "9",
                    "A", "B", "C", "D", "E", "F">>

\* position of x in a sequence without repetitions, counted from 0
IndexOf(seq, x) == (CHOOSE i \in 1..Len(seq) : seq[i] = x) - 1
Occurs(seq, x) == \E i \in 1..Len(seq) : seq[i] = x

\* parseInt(timestamp): an optional sign, then the longest prefix of decimal
\* digits; NaN when there is no digit
RECURSIVE DigitsValue(_, _, _)
DigitsValue(chars, i, acc) ==
  IF i > Len(chars) \/ ~Occurs(DecDigits, chars[i])
  THEN acc
  ELSE DigitsValue(chars, i + 1, acc * 10 + IndexOf(DecDigits, chars[i]))

parseInt(chars) ==
  LET signed == Len(chars) > 0 /\ chars[1] \in {"-", "+"}
      first == IF signed THEN 2 ELSE 1
      magnitude == DigitsValue(chars, first, 0)
  IN IF first > Len(chars) \/ ~Occurs(DecDigits, chars[first])
     THEN [nan |-> TRUE, v |-> 0]
     ELSE [nan |-> FALSE,
           v |-> IF signed /\ chars[1] = "-" THEN 0 - magnitude ELSE magnitude]

\* the width of the replay window in seconds
FreshnessWindow == 300

\* mutant: the window excludes its boundary
isStale_Exclusive(t, requestTime) ==
  /\ ~requestTime.nan
  /\ (IF t >= requestTime.v THEN t - requestTime.v ELSE requestTime.v - t)
        >= FreshnessWindow

\* Math.abs(now - requestTime) > 300; every comparison with NaN is false
isStale(t, requestTime) ==
  /\ ~requestTime.nan
  /\ (IF t >= requestTime.v THEN t - requestTime.v ELSE requestTime.v - t)
        > FreshnessWindow

\* names every object inherits from Object.prototype
ObjectPrototypeKeys == {"constructor", "toString", "valueOf", "hasOwnProperty"}

\* AGENT_CONFIG[agentId]: an own entry, an inherited member (an object without
\* secret or riskLevel) or undefined
agentConfigOf(agentId) ==
  IF agentId \in DOMAIN AGENT_CONFIG
  THEN [defined |-> TRUE, secret |-> AGENT_CONFIG[agentId].secret,
        riskLevel |-> AGENT_CONFIG[agentId].riskLevel]
  ELSE IF agentId \in ObjectPrototypeKeys
  THEN [defined |-> TRUE, secret |-> Undefined, riskLevel |-> Undefined]
  ELSE [defined |-> FALSE, secret |-> Undefined, riskLevel |-> Undefined]

\* c.env[name]
envOf(e, name) == IF name \in DOMAIN e THEN e[name] ELSE Undefined

\* the values that occur as key and as parts of the signed message
SecretValues == <<"key-content", "key-seo", "key-ops", "key-commerce",
                  "key-community", "guess">>
AgentIdHeaders == <<Undefined, "", "ContentAgent", "OpsAgent", "EvilAgent",
                    "constructor">>
TimestampHeaders == << Absent, <<>>, <<"1","0","0","0">>, <<"1","3","0","0">>,
                       <<"1","3","0","1">>, <<"a","b","c">>,
                       <<"1","0","0","0","x">> >>
TaskBody == "{\"type\":\"noop\"}"
ContentBody == "{\"path\":\"blog/post.md\",\"markdown\":\"text\",\"reason\":\"new\"}"
FlagBody == "{\"flagKey\":\"ui.banner\",\"value\":true,\"reason\":\"new\"}"
AuditBody == "{\"urls\":5}"
Bodies == <<"{}", TaskBody, ContentBody, FlagBody, AuditBody>>

\* createHmac('sha256', secret).update(`${agentId}:${timestamp}:${body}`)
\* .digest(): the digest bytes, one-to-one in (secret, message)
hmacDigest(secret, agentId, timestamp, body) ==
  << IndexOf(SecretValues, secret) * 16 + IndexOf(AgentIdHeaders, agentId),
     IndexOf(TimestampHeaders, timestamp) * 16 + IndexOf(Bodies, body) >>

\* digest('hex'): two lower-case hex digits per byte
RECURSIVE toHex(_)
toHex(bytes) ==
  IF bytes = <<>> THEN <<>>
  ELSE << HexDigits[(bytes[1] \div 16) + 1], HexDigits[(bytes[1] % 16) + 1] >>
       \o toHex(Tail(bytes))

isHexDigit(c) == Occurs(HexDigits, c) \/ Occurs(UpperHexDigits, c)
hexValue(c) == IF Occurs(HexDigits, c) THEN IndexOf(HexDigits, c)
               ELSE IndexOf(UpperHexDigits, c)

\* Buffer.from(text, 'hex'): decodes pairs of hex digits of either case and
\* stops at the first pair that is not two hex digits; a last single
\* character is dropped
RECURSIVE BufferFromHex(_)
BufferFromHex(chars) ==
  IF Len(chars) < 2 \/ ~isHexDigit(chars[1]) \/ ~isHexDigit(chars[2])
  THEN <<>>
  ELSE <<hexValue(chars[1]) * 16 + hexValue(chars[2])>>
       \o BufferFromHex(SubSeq(chars, 3, Len(chars)))

\* mutant: a refused request keeps an agent id in its context
NoContext_Attached == [agentId |-> "ContentAgent", agentRiskLevel |-> Undefined,
                       body |-> Undefined]

\* the request context when verifyHMAC set nothing
NoContext == [agentId |-> Undefined, agentRiskLevel |-> Undefined,
              body |-> Undefined]
Failure(name, code, text) ==
  [outcome |-> name, code |-> code, text |-> text, context |-> NoContext]

\* the verifyHMAC middleware on request req, with bindings e at time t
verifyHMAC(req, e, t) ==
  LET agentConfig == agentConfigOf(req.agentId)
      secret == envOf(e, agentConfig.secret)
      expectedSignature ==
        toHex(hmacDigest(secret, req.agentId, req.timestamp, req.body))
      providedSig == BufferFromHex(req.signature)
      expectedSig == BufferFromHex(expectedSignature)
  IN IF missingText(req.agentId) \/ missingChars(req.timestamp)
        \/ missingChars(req.signature)
     THEN Failure("MissingCredentials", 401, "Missing authentication headers")
     ELSE IF isStale(t, parseInt(req.timestamp))
     THEN Failure("StaleRequest", 401, "Request timestamp too old")
     ELSE IF ~agentConfig.defined
     THEN Failure("UnknownAgent", 401, "Unknown agent")
     ELSE IF missingText(secret)
     THEN Failure("ConfigurationError", 500, "Internal configuration error")
     ELSE IF Len(providedSig) # Len(expectedSig) \/ providedSig # expectedSig
     THEN Failure("InvalidSignature", 401, "Invalid signature")
     ELSE [outcome |-> "Authenticated", code |-> 0, text |-> "next",
           context |-> [agentId |-> req.agentId,
                        agentRiskLevel |-> agentConfig.riskLevel,
                        body |-> req.body]]

\* the bindings: every agent key set, or CONTENTAGENT_API_KEY left unset
EnvConfigured ==
  [ CONTENTAGENT_API_KEY |-> "key-content", SEOAGENT_API_KEY |-> "key-seo",
    OPSAGENT_API_KEY |-> "key-ops", COMMERCEAGENT_API_KEY |-> "key-commerce",
    COMMUNITYAGENT_API_KEY |-> "key-community" ]
EnvNoContentKey == [EnvConfigured EXCEPT !.CONTENTAGENT_API_KEY = Undefined]
Envs == {EnvConfigured, EnvNoContentKey}

NoRequest == [agentId |-> Undefined, timestamp |-> Absent,
              signature |-> Absent, body |-> Undefined]
NoOutcome == Failure("none", 0, "")

\* no scheduled sweep is running
CronIdle == [pc |-> "idle", tasks |-> <<>>, now |-> 0]

\* the consumer holds no message
NoMessage == [body |-> [taskId |-> 0, agentId |-> "", type |-> ""],
              attempts |-> 0]

\* handleQueueBatch is not running: no message in hand, no batch left
ConsumerIdle == [pc |-> "idle", message |-> NoMessage, batch |-> <<>>,
                 done |-> 0]

\* the idle state of the queue and of its consumer
QueueIdle ==
  /\ agentTasks = <<>>
  /\ JOBS_QUEUE = <<>>
  /\ nextTask = 1
  /\ consumer = ConsumerIdle
  /\ acked = <<>>
  /\ cron = CronIdle

NoChange == [id |-> 0]
NoValue == "NULL"

\* the empty ledger: no Change, no flag row, nothing in CONFIG_KV, no admin
\* request in progress
LedgerIdle ==
  /\ agentChanges = <<>>
  /\ featureFlags = <<>>
  /\ CONFIG_KV = [k \in FlagKeys |-> NoValue]
  /\ nextId = 1
  /\ pc = [p \in Approvers |-> "idle"]
  /\ change = [p \in Approvers |-> NoChange]
  /\ response = [code |-> 0, text |-> ""]
  /\ executorCalls = [i \in Ids |-> 0]
  /\ kvWrites = [i \in Ids |-> 0]
  /\ decided = [i \in Ids |-> {}]

Init ==
  /\ LedgerIdle
  /\ now = 1
  /\ env = EnvConfigured
  /\ request = NoRequest
  /\ outcome = NoOutcome
  /\ QueueIdle

\* mutant: every Change is inserted as pending
NewChange_Pending(id, agentId, action, payload, riskLevel, status) ==
  [ id |-> id, agentId |-> agentId, action |-> action, payload |-> payload,
    riskLevel |-> riskLevel, status |-> "pending",
    approvedBy |-> NullText, approvedAt |-> Null, executedAt |-> Null,
    error |-> NullText ]

\* db.insert(agentChanges).values(...): the columns not given take the
\* schema defaults (NULL)
NewChange(id, agentId, action, payload, riskLevel, status) ==
  [ id |-> id, agentId |-> agentId, action |-> action, payload |-> payload,
    riskLevel |-> riskLevel, status |-> status,
    approvedBy |-> NullText, approvedAt |-> Null, executedAt |-> Null,
    error |-> NullText ]

\* the agent's static class, as verifyHMAC stores it in the context
agentRiskLevel(agentId) == AGENT_CONFIG[agentId].riskLevel

\* POST /agent/proposals/content
SubmitContent(agentId, path) ==
  /\ UNCHANGED queueVars
  /\ nextId <= MaxSubmits
  /\ LET riskLevel == agentRiskLevel(agentId)
         status == IF riskLevel = "low" THEN "approved" ELSE "pending"
     IN /\ agentChanges' = agentChanges @@
              (nextId :> NewChange(nextId, agentId, "content_proposal",
                                   [path |-> path], riskLevel, status))
        /\ response' = [code |-> 200, text |-> status]
  /\ nextId' = nextId + 1
  /\ UNCHANGED <<featureFlags, CONFIG_KV, now, pc, change, executorCalls,
                 kvWrites, decided>>

\* POST /agent/flags: the sensitive-key test
isHighRisk(flagKey) ==
  includes(flagKey, "production") \/ includes(flagKey, "critical")

\* mutant: only high-risk agents are held for approval
requiresApproval_HighOnly(agentId, flagKey) ==
  isHighRisk(flagKey) /\ agentRiskLevel(agentId) = "high"

\* POST /agent/flags: the condition of the "record for approval" branch
requiresApproval(agentId, flagKey) ==
  isHighRisk(flagKey) /\ agentRiskLevel(agentId) # "low"

\* POST /agent/flags; putOk = FALSE is CONFIG_KV.put throwing
SubmitFlag(agentId, flagKey, value, putOk) ==
  /\ UNCHANGED queueVars
  /\ nextId <= MaxSubmits
  /\ nextId' = nextId + 1
  /\ IF requiresApproval(agentId, flagKey)
     THEN /\ putOk
          /\ agentChanges' = agentChanges @@
                (nextId :> NewChange(nextId, agentId, "flag_change",
                                     [flagKey |-> flagKey, value |-> value],
                                     "high", "pending"))
          /\ response' = [code |-> 200, text |-> "pending"]
          /\ UNCHANGED <<featureFlags, CONFIG_KV, kvWrites>>
     ELSE IF putOk
          THEN /\ CONFIG_KV' = [CONFIG_KV EXCEPT ![flagKey] = JSONstringify(value)]
               /\ kvWrites' = [kvWrites EXCEPT ![nextId] = @ + 1]
               /\ featureFlags' = Append(featureFlags,
                     [key |-> flagKey, value |-> value, changedBy |-> agentId])
               /\ response' = [code |-> 200, text |-> "applied"]
               /\ UNCHANGED agentChanges
          ELSE /\ response' = [code |-> 500, text |-> "Internal Server Error"]
               /\ UNCHANGED <<agentChanges, featureFlags, CONFIG_KV, kvWrites>>
  /\ UNCHANGED <<now, pc, change, executorCalls, decided>>

\* POST /admin/approvals/:id/approve, up to the status check
ApproveSelect(p, id) ==
  /\ UNCHANGED <<authVars, queueVars>>
  /\ pc[p] = "idle"
  /\ decided' = IF id \in DOMAIN agentChanges
                THEN [decided EXCEPT ![id] = @ \cup {"approve"}]
                ELSE decided
  /\ IF id \notin DOMAIN agentChanges
     THEN /\ response' = [code |-> 404, text |-> "Change not found"]
          /\ UNCHANGED <<pc, change>>
     ELSE IF agentChanges[id].status # "pending"
     THEN /\ response' = [code |-> 400, text |-> "Change already processed"]
          /\ UNCHANGED <<pc, change>>
     ELSE /\ pc' = [pc EXCEPT ![p] = "update"]
          /\ change' = [change EXCEPT ![p] = agentChanges[id]]
          /\ UNCHANGED response
  /\ UNCHANGED <<agentChanges, featureFlags, CONFIG_KV, nextId, now,
                 executorCalls, kvWrites>>

\* mutant: the approve route does not record who approved
ApprovedRow_NoActor(row) ==
  [row EXCEPT !.status = "approved", !.approvedAt = now]

\* the row the approve route writes
ApprovedRow(row) ==
  [row EXCEPT !.status = "approved", !.approvedBy = "admin",
              !.approvedAt = now]

\* approve: db.update(agentChanges).set({status: 'approved', ...})
\*          .where(eq(agentChanges.id, changeId))
ApproveUpdate(p) ==
  /\ UNCHANGED <<authVars, queueVars>>
  /\ pc[p] = "update"
  /\ agentChanges' = [agentChanges EXCEPT ![change[p].id] = ApprovedRow(@)]
  /\ pc' = [pc EXCEPT ![p] = "execute"]
  /\ UNCHANGED <<featureFlags, CONFIG_KV, nextId, now, change, response,
                 executorCalls, kvWrites, decided>>

\* the row update that ends executeAgentChange
MarkExecuted(id) ==
  [agentChanges EXCEPT ![id] =
     [@ EXCEPT !.status = "executed", !.executedAt = now]]

\* executeAgentChange for a content_proposal: the log line and, with no
\* await in between, the update that marks the Change executed
ExecuteContent(p) ==
  /\ UNCHANGED <<authVars, queueVars>>
  /\ pc[p] = "execute"
  /\ change[p].action = "content_proposal"
  /\ executorCalls' = [executorCalls EXCEPT ![change[p].id] = @ + 1]
  /\ agentChanges' = MarkExecuted(change[p].id)
  /\ pc' = [pc EXCEPT ![p] = "idle"]
  /\ change' = [change EXCEPT ![p] = NoChange]
  /\ response' = [code |-> 200, text |-> "Change approved and executed"]
  /\ UNCHANGED <<featureFlags, CONFIG_KV, nextId, now, kvWrites, decided>>

\* executeAgentChange for a flag_change: env.CONFIG_KV.put of the selected
\* row's payload; putOk = FALSE is the put throwing, which ends the request
ExecuteFlagPut(p, putOk) ==
  /\ UNCHANGED <<authVars, queueVars>>
  /\ pc[p] = "execute"
  /\ change[p].action = "flag_change"
  /\ executorCalls' = [executorCalls EXCEPT ![change[p].id] = @ + 1]
  /\ IF putOk
     THEN /\ CONFIG_KV' = [CONFIG_KV EXCEPT ![change[p].payload.flagKey] =
                              JSONstringify(change[p].payload.value)]
          /\ kvWrites' = [kvWrites EXCEPT ![change[p].id] = @ + 1]
          /\ pc' = [pc EXCEPT ![p] = "mark"]
          /\ UNCHANGED <<change, response>>
     ELSE /\ pc' = [pc EXCEPT ![p] = "idle"]
          /\ change' = [change EXCEPT ![p] = NoChange]
          /\ response' = [code |-> 500, text |-> "Internal Server Error"]
          /\ UNCHANGED <<CONFIG_KV, kvWrites>>
  /\ UNCHANGED <<agentChanges, featureFlags, nextId, now, decided>>

\* executeAgentChange for a flag_change, after the put: mark as executed
ExecuteFlagMark(p) ==
  /\ UNCHANGED <<authVars, queueVars>>
  /\ pc[p] = "mark"
  /\ agentChanges' = MarkExecuted(change[p].id)
  /\ pc' = [pc EXCEPT ![p] = "idle"]
  /\ change' = [change EXCEPT ![p] = NoChange]
  /\ response' = [code |-> 200, text |-> "Change approved and executed"]
  /\ UNCHANGED <<featureFlags, CONFIG_KV, nextId, now, executorCalls,
                 kvWrites, decided>>

\* mutant: the reject route also stamps executedAt
RejectedRow_Executed(row, reason) ==
  [row EXCEPT !.status = "rejected", !.approvedBy = "admin",
              !.approvedAt = now, !.executedAt = now, !.error = reason]

\* the row the reject route writes
RejectedRow(row, reason) ==
  [row EXCEPT !.status = "rejected", !.approvedBy = "admin",
              !.approvedAt = now, !.error = reason]

\* POST /admin/approvals/:id/reject: one update, where id = :id
Reject(id, reason) ==
  /\ UNCHANGED <<authVars, queueVars>>
  /\ decided' = IF id \in DOMAIN agentChanges
                THEN [decided EXCEPT ![id] = @ \cup {"reject"}]
                ELSE decided
  /\ agentChanges' = [i \in DOMAIN agentChanges |->
        IF i = id THEN RejectedRow(agentChanges[i], reason) ELSE agentChanges[i]]
  /\ response' = [code |-> 200, text |-> "Change rejected"]
  /\ UNCHANGED <<featureFlags, CONFIG_KV, nextId, now, pc, change,
                 executorCalls, kvWrites>>

\* time passes
Tick ==
  /\ UNCHANGED <<authVars, queueVars>>
  /\ now < MaxTime
  /\ now' = now + 1
  /\ UNCHANGED <<agentChanges, featureFlags, CONFIG_KV, nextId, pc, change,
                 response, executorCalls, kvWrites, decided>>

Next ==
  \/ \E a \in Agents, path \in ContentPaths :
        SubmitContent(a, path) /\ UNCHANGED authVars
  \/ \E a \in Agents, k \in FlagKeys, v \in Values, ok \in BOOLEAN :
        SubmitFlag(a, k, v, ok) /\ UNCHANGED authVars
  \/ \E p \in Approvers, id \in Ids : ApproveSelect(p, id)
  \/ \E p \in Approvers : ApproveUpdate(p)
  \/ \E p \in Approvers : ExecuteContent(p)
  \/ \E p \in Approvers, ok \in BOOLEAN : ExecuteFlagPut(p, ok)
  \/ \E p \in Approvers : ExecuteFlagMark(p)
  \/ \E id \in Ids, r \in Reasons : Reject(id, r)
  \/ Tick

Spec == Init /\ [][Next]_vars

\* ------------------------------------------------------------------ claims

\* C1: under any interleaving of two concurrent approve requests for the
\* same pending Change, executeAgentChange is invoked at most once for it.
C1_ExecutorAtMostOnce == \A id \in Ids : executorCalls[id] <= 1

\* the moves of status the data model allows
LegalStatusChange(s, t) ==
  \/ s = t
  \/ <<s, t>> \in { <<"pending", "approved">>, <<"approved", "executed">>,
                    <<"pending", "rejected">>, <<"pending", "executed">> }

\* C2: every status change of a Change is pending->approved,
\* approved->executed, pending->rejected or pending->executed, so a rejected
\* or executed Change never changes status again.
C2_OnlyLegalStatusChanges ==
  [][\A id \in DOMAIN agentChanges :
        LegalStatusChange(agentChanges[id].status, agentChanges'[id].status)]_vars

\* a decision has already been applied to the Change and no approve request
\* is in flight
AlreadyDecided(id) ==
  /\ id \in DOMAIN agentChanges
  /\ agentChanges[id].status # "pending"
  /\ agentChanges[id].approvedBy # NullText
  /\ \A p \in Approvers : pc[p] = "idle"

\* C3: a decide call (approve or reject) on a Change that was already decided
\* fails with "already processed" and leaves the row as it was.
C3_SecondDecideFails ==
  [][\A id \in Ids :
        (/\ AlreadyDecided(id)
         /\ \/ \E p \in Approvers : ApproveSelect(p, id)
            \/ \E r \in Reasons : Reject(id, r))
        => /\ response' = [code |-> 400, text |-> "Change already processed"]
           /\ agentChanges'[id] = agentChanges[id]]_vars

\* the submission that takes nextId left a pending Change and wrote no flag
HeldForReview ==
  /\ nextId \in DOMAIN agentChanges'
  /\ agentChanges'[nextId].status = "pending"
  /\ CONFIG_KV' = CONFIG_KV
  /\ kvWrites' = kvWrites

\* C4: every accepted submission (content proposal or flag change) of a
\* medium- or high-risk agent records a pending Change and has no Executor
\* effect (no CONFIG_KV write).
C4_NonLowHeldForReview ==
  [][\A a \in Agents :
        (/\ agentRiskLevel(a) # "low"
         /\ \/ \E path \in ContentPaths : SubmitContent(a, path)
            \/ \E k \in FlagKeys, v \in Values : SubmitFlag(a, k, v, TRUE))
        => HeldForReview]_vars

\* C5: every accepted submission of a low-risk agent yields a Change whose
\* status is approved or executed when the submission returns.
C5_LowRiskApprovedAtOnce ==
  [][\A a \in Agents :
        (/\ agentRiskLevel(a) = "low"
         /\ \/ \E path \in ContentPaths : SubmitContent(a, path)
            \/ \E k \in FlagKeys, v \in Values : SubmitFlag(a, k, v, TRUE))
        => /\ nextId \in DOMAIN agentChanges'
           /\ agentChanges'[nextId].status \in {"approved", "executed"}]_vars

\* the flag keys of the model that contain 'production' or 'critical'
SensitiveKeys == {"production.maintenance_mode", "prod.critical.flag"}

\* C6: a flag change on a sensitive key is recorded as a Change with
\* riskLevel high, whatever the risk class of the agent.
C6_SensitiveKeyIsHigh ==
  [][\A a \in Agents, k \in SensitiveKeys, v \in Values :
        SubmitFlag(a, k, v, TRUE)
        => /\ nextId \in DOMAIN agentChanges'
           /\ agentChanges'[nextId].riskLevel = "high"]_vars

\* C7: a flag change on a sensitive key from a medium-risk agent yields a
\* Change with riskLevel high and status pending, and the submission does not
\* write CONFIG_KV.
C7_MediumSensitiveFlagPending ==
  [][\A a \in Agents, k \in SensitiveKeys, v \in Values, ok \in BOOLEAN :
        (AGENT_CONFIG[a].riskLevel = "medium" /\ SubmitFlag(a, k, v, ok))
        => /\ nextId \in DOMAIN agentChanges'
           /\ agentChanges'[nextId].riskLevel = "high"
           /\ agentChanges'[nextId].status = "pending"
           /\ agentChanges'[nextId].action = "flag_change"
           /\ CONFIG_KV' = CONFIG_KV
           /\ kvWrites' = kvWrites
           /\ featureFlags' = featureFlags]_vars

\* C7 witness: a medium-risk agent's flag change on a sensitive key is held
C7_Witness ==
  \E id \in DOMAIN agentChanges :
     /\ AGENT_CONFIG[agentChanges[id].agentId].riskLevel = "medium"
     /\ agentChanges[id].action = "flag_change"
     /\ agentChanges[id].payload.flagKey \in SensitiveKeys
     /\ agentChanges[id].status = "pending"
     /\ CONFIG_KV[agentChanges[id].payload.flagKey] = NoValue

\* a flag change of a high-risk agent on a sensitive key, on which reject
\* was requested and approve never was
RejectedOnly(id) ==
  /\ id \in DOMAIN agentChanges
  /\ AGENT_CONFIG[agentChanges[id].agentId].riskLevel = "high"
  /\ agentChanges[id].action = "flag_change"
  /\ agentChanges[id].payload.flagKey \in SensitiveKeys
  /\ decided[id] = {"reject"}

\* C8: a sensitive flag change of a high-risk agent that an operator rejects,
\* with no other decision, ends with riskLevel high, status rejected and
\* executedAt NULL, and CONFIG_KV is never written for it.
C8_RejectedFlagNeverApplied ==
  \A id \in Ids :
     RejectedOnly(id)
     => /\ agentChanges[id].riskLevel = "high"
        /\ agentChanges[id].status = "rejected"
        /\ agentChanges[id].executedAt = Null
        /\ agentChanges[id].approvedBy = "admin"
        /\ agentChanges[id].error \in Reasons
        /\ kvWrites[id] = 0
        /\ executorCalls[id] = 0

\* C8 witness: such a Change exists and the reject has been applied
C8_Witness ==
  \E id \in Ids : RejectedOnly(id) /\ agentChanges[id].status = "rejected"

\* C9: once a reject has been applied to a Change its status stays rejected
\* and the Executor is never invoked for it afterwards.
C9_RejectIsTerminal ==
  [][\A id \in DOMAIN agentChanges :
        agentChanges[id].status = "rejected"
        => /\ agentChanges'[id].status = "rejected"
           /\ executorCalls'[id] = executorCalls[id]
           /\ kvWrites'[id] = kvWrites[id]]_vars

\* the text CONFIG_KV holds for a flag value
StoredText(v) ==
  CASE v = [t |-> "boolean", v |-> "true"] -> "true"
    [] v = [t |-> "string", v |-> "on"]    -> "\"on\""

\* C10: approve writes status approved with approvedBy and approvedAt before
\* the Executor is invoked; an Executor run that succeeds leaves the Change
\* executed with executedAt set, and for a flag_change it has stored the
\* payload's value under the payload's flagKey.
C10_ApproveThenExecute ==
  [][/\ \A id \in Ids :
           executorCalls'[id] > executorCalls[id]
           => /\ agentChanges[id].status # "pending"
              /\ agentChanges[id].approvedBy = "admin"
              /\ agentChanges[id].approvedAt # Null
     /\ \A p \in Approvers :
           LET id == change[p].id IN
           /\ ApproveUpdate(p)
              => /\ agentChanges'[id].status = "approved"
                 /\ agentChanges'[id].approvedBy = "admin"
                 /\ agentChanges'[id].approvedAt = now
                 /\ agentChanges'[id].approvedAt # Null
                 /\ executorCalls' = executorCalls
                 /\ CONFIG_KV' = CONFIG_KV
           /\ ExecuteFlagPut(p, TRUE)
              => CONFIG_KV'[agentChanges[id].payload.flagKey] =
                    StoredText(agentChanges[id].payload.value)
           /\ (ExecuteContent(p) \/ ExecuteFlagMark(p))
              => /\ agentChanges'[id].status = "executed"
                 /\ agentChanges'[id].executedAt = now
                 /\ agentChanges'[id].executedAt # Null
                 /\ response'.code = 200
                 /\ agentChanges[id].action = "flag_change"
                    => kvWrites[id] > 0]_vars

\* C10 witness: an approved flag change has been executed and its value is
\* in CONFIG_KV
C10_Witness ==
  \E id \in DOMAIN agentChanges :
     /\ agentChanges[id].action = "flag_change"
     /\ decided[id] = {"approve"}
     /\ agentChanges[id].status = "executed"
     /\ agentChanges[id].executedAt # Null
     /\ agentChanges[id].approvedBy = "admin"
     /\ executorCalls[id] = 1
     /\ CONFIG_KV[agentChanges[id].payload.flagKey] =
           StoredText(agentChanges[id].payload.value)

\* C11: when the Executor fails after an approve decision the Change keeps
\* status approved and its error column is set to the failure reason.
C11_ExecutorFailureRecorded ==
  [][\A p \in Approvers :
        ExecuteFlagPut(p, FALSE)
        => /\ agentChanges'[change[p].id].status = "approved"
           /\ agentChanges'[change[p].id].error # NullText]_vars

\* C12: a low-risk submission runs the Executor within the submission call,
\* and the Change is executed with executedAt set when the submission returns.
C12_LowRiskExecutedAtOnce ==
  [][\A a \in Agents :
        (/\ agentRiskLevel(a) = "low"
         /\ \/ \E path \in ContentPaths : SubmitContent(a, path)
            \/ \E k \in FlagKeys, v \in Values : SubmitFlag(a, k, v, TRUE))
        => /\ nextId \in DOMAIN agentChanges'
           /\ agentChanges'[nextId].status = "executed"
           /\ agentChanges'[nextId].executedAt # Null
           /\ executorCalls'[nextId] = executorCalls[nextId] + 1]_vars

\* C13: approve and reject of an unknown changeId both fail with "not found"
\* and leave the Change table unchanged.
C13_UnknownChangeNotFound ==
  [][\A id \in Ids :
        (/\ id \notin DOMAIN agentChanges
         /\ \/ \E p \in Approvers : ApproveSelect(p, id)
            \/ \E r \in Reasons : Reject(id, r))
        => /\ response'.code = 404
           /\ agentChanges' = agentChanges]_vars

\* ------------------------------------------------- the verifier on its own
\* the server's clock when the request arrives, in seconds
VerifyTimes == {1000, 1300, 1301}

Range(seq) == {seq[i] : i \in 1..Len(seq)}

\* the keys a sender may sign with: the two agents' own keys and a guess
SignerKeys == {"key-content", "key-ops", "guess"}

toUpper(chars) ==
  [i \in 1..Len(chars) |->
     IF Occurs(HexDigits, chars[i])
     THEN UpperHexDigits[IndexOf(HexDigits, chars[i]) + 1] ELSE chars[i]]

\* header values derived from a hex digest: itself, in upper case, followed
\* by extra characters, cut short, and with its first digit changed
SignatureVariants(hex) ==
  { hex, toUpper(hex), hex \o <<"z", "z">>, hex \o <<"0">>,
    hex \o <<"0", "0">>, SubSeq(hex, 1, Len(hex) - 2),
    <<IF hex[1] = "0" THEN "1" ELSE "0">> \o Tail(hex) }

\* the X-Signature values tried for a request
SignatureHeaders(agentId, timestamp, body) ==
  {Absent, <<>>} \cup
  UNION { SignatureVariants(toHex(hmacDigest(k, agentId, timestamp, b))) :
            k \in SignerKeys, b \in Range(Bodies) }

Requests ==
  UNION { { [agentId |-> a, timestamp |-> ts, signature |-> sig, body |-> b] :
              sig \in SignatureHeaders(a, ts, b) } :
          a \in Range(AgentIdHeaders), ts \in Range(TimestampHeaders),
          b \in Range(Bodies) }

VerifyInit ==
  /\ LedgerIdle
  /\ QueueIdle
  /\ now \in VerifyTimes
  /\ env \in Envs
  /\ request \in Requests
  /\ outcome = NoOutcome

\* one request passes through the middleware
VerifyRequest ==
  /\ outcome = NoOutcome
  /\ outcome' = verifyHMAC(request, env, now)
  /\ UNCHANGED <<ledgerVars, queueVars, now, env, request>>

VerifyNext == VerifyRequest

SpecVerify == VerifyInit /\ [][VerifyNext]_vars

Verified == outcome # NoOutcome

NoHeaderMissing ==
  /\ ~missingText(request.agentId)
  /\ ~missingChars(request.timestamp)
  /\ ~missingChars(request.signature)

\* the time a timestamp header denotes, -1 when it is not a number
TimestampSeconds(ts) ==
  CASE ts = <<"1","0","0","0">> -> 1000
    [] ts = <<"1","3","0","0">> -> 1300
    [] ts = <<"1","3","0","1">> -> 1301
    [] OTHER -> -1

Distance(a, b) == IF a >= b THEN a - b ELSE b - a

FreshTimestamp ==
  /\ TimestampSeconds(request.timestamp) >= 0
  /\ Distance(now, TimestampSeconds(request.timestamp)) <= 300

ConfiguredAgent ==
  /\ request.agentId \in DOMAIN AGENT_CONFIG
  /\ ~missingText(envOf(env, AGENT_CONFIG[request.agentId].secret))

\* the hex HMAC of agentId:timestamp:body under the agent's key
ExpectedHeader ==
  toHex(hmacDigest(envOf(env, AGENT_CONFIG[request.agentId].secret),
                   request.agentId, request.timestamp, request.body))

\* C14: for a fresh timestamp and a configured agent the verifier accepts
\* the signature header that is the hex HMAC of agentId:timestamp:body and
\* answers InvalidSignature to every other header value, whatever its length
C14_ExactlyOneSignatureAccepted ==
  (Verified /\ NoHeaderMissing /\ FreshTimestamp /\ ConfiguredAgent)
    => IF request.signature = ExpectedHeader
       THEN outcome.outcome = "Authenticated"
       ELSE outcome.outcome = "InvalidSignature"

C16_AuthenticatedIsFresh ==
  outcome.outcome = "Authenticated" => FreshTimestamp

\* the outcome the order of checks prescribes
ExpectedOutcome ==
  IF ~NoHeaderMissing THEN "MissingCredentials"
  ELSE IF /\ TimestampSeconds(request.timestamp) >= 0
          /\ Distance(now, TimestampSeconds(request.timestamp)) > 300
  THEN "StaleRequest"
  ELSE IF request.agentId \notin DOMAIN AGENT_CONFIG THEN "UnknownAgent"
  ELSE IF ~ConfiguredAgent THEN "ConfigurationError"
  ELSE IF BufferFromHex(request.signature) # BufferFromHex(ExpectedHeader)
  THEN "InvalidSignature"
  ELSE "Authenticated"

\* C17: every request gets the one outcome of the first check it fails, in
\* the order MissingCredentials, StaleRequest, UnknownAgent,
\* ConfigurationError, InvalidSignature, and Authenticated when none fails
C17_OutcomeOrder ==
  Verified => outcome.outcome = ExpectedOutcome

\* ------------------------------------------------------- tasks and queue
\* db.insert(agentTasks).values(...): the columns not given take the schema
\* defaults
DefaultAttempts == 0
DefaultMaxAttempts == 3
\* TaskSchema: priority defaults to 5
DefaultPriority == 5

\* mutant: a Task is inserted with its attempts used up and one more
NewTask_Spent(id, agentId, type, scheduledFor) ==
  [ id |-> id, agentId |-> agentId, type |-> type, status |-> "pending",
    priority |-> DefaultPriority, attempts |-> DefaultMaxAttempts + 1,
    maxAttempts |-> DefaultMaxAttempts, result |-> NullText,
    error |-> NullText, scheduledFor |-> scheduledFor, startedAt |-> Null,
    completedAt |-> Null ]

NewTask(id, agentId, type, scheduledFor) ==
  [ id |-> id, agentId |-> agentId, type |-> type, status |-> "pending",
    priority |-> DefaultPriority, attempts |-> DefaultAttempts,
    maxAttempts |-> DefaultMaxAttempts, result |-> NullText,
    error |-> NullText, scheduledFor |-> scheduledFor, startedAt |-> Null,
    completedAt |-> Null ]

\* a message of JOBS_QUEUE: the body that was sent and the number of the
\* delivery it is waiting for
NewMessage(taskId, agentId, type) ==
  [ body |-> [taskId |-> taskId, agentId |-> agentId, type |-> type],
    attempts |-> 1 ]

\* POST /agent/tasks; scheduledFor is Null when the body has none;
\* sendOk = FALSE is JOBS_QUEUE.send throwing
SubmitTask(agentId, type, scheduledFor, sendOk) ==
  /\ nextTask <= MaxTasks
  /\ nextTask' = nextTask + 1
  /\ agentTasks' = agentTasks @@
        (nextTask :> NewTask(nextTask, agentId, type, scheduledFor))
  /\ IF sendOk
     THEN /\ JOBS_QUEUE' = Append(JOBS_QUEUE, NewMessage(nextTask, agentId, type))
          /\ response' = [code |-> 200, text |-> "queued"]
     ELSE /\ response' = [code |-> 500, text |-> "Internal Server Error"]
          /\ UNCHANGED JOBS_QUEUE
  /\ UNCHANGED <<consumer, acked, cron, agentChanges, featureFlags, CONFIG_KV,
                 nextId, now, pc, change, executorCalls, kvWrites, decided>>

\* POST /agent/seo/audit: a message and no Task row
SubmitSeoAudit(agentId, sendOk) ==
  /\ nextTask <= MaxTasks
  /\ nextTask' = nextTask + 1
  /\ IF sendOk
     THEN /\ JOBS_QUEUE' = Append(JOBS_QUEUE,
                                  NewMessage(nextTask, agentId, "seo_audit"))
          /\ response' = [code |-> 200, text |-> "queued"]
     ELSE /\ response' = [code |-> 500, text |-> "Internal Server Error"]
          /\ UNCHANGED JOBS_QUEUE
  /\ UNCHANGED <<agentTasks, consumer, acked, cron, agentChanges, featureFlags,
                 CONFIG_KV, nextId, now, pc, change, executorCalls, kvWrites,
                 decided>>

\* ------------------------------------------- the agent routes, verified
\* JSON.parse of the request bodies of the model
JSONparse(body) ==
  CASE body = TaskBody -> [type |-> "noop"]
    [] body = ContentBody ->
         [path |-> "blog/post.md", markdown |-> "text", reason |-> "new"]
    [] body = FlagBody ->
         [flagKey |-> "ui.banner", value |-> [t |-> "boolean", v |-> "true"],
          reason |-> "new"]
    [] body = AuditBody -> [urls |-> 5]
    [] OTHER -> <<>>

\* safeParse(...).success of the three schemas: the required fields
ContentProposalSchema(data) == {"path", "markdown", "reason"} \subseteq DOMAIN data
FlagChangeSchema(data) == {"flagKey", "reason"} \subseteq DOMAIN data
TaskSchema(data) == "type" \in DOMAIN data

\* agentRouter.use('*', verifyHMAC): the routes behind the middleware
guardedRoutes_NoAudit == {"proposals/content", "flags", "tasks"}
guardedRoutes == {"proposals/content", "flags", "tasks", "seo/audit"}

\* mutant: a tuple is accepted once (the last accepted tuple is remembered)
Passes_Once(route, req, o) ==
  /\ route \notin guardedRoutes \/ o.outcome = "Authenticated"
  /\ ~(req = request /\ outcome.outcome = "Authenticated")

\* the handler of a route runs when the middleware reached next()
Passes(route, req, o) ==
  route \notin guardedRoutes \/ o.outcome = "Authenticated"

\* the middleware's own response; the handler does not run
Refuse(o) ==
  /\ response' = [code |-> o.code, text |-> o.text]
  /\ UNCHANGED <<agentChanges, featureFlags, CONFIG_KV, nextId, now, pc,
                 change, executorCalls, kvWrites, decided, queueVars>>

\* 400 'Invalid input'
Invalid ==
  /\ response' = [code |-> 400, text |-> "Invalid input"]
  /\ UNCHANGED <<agentChanges, featureFlags, CONFIG_KV, nextId, now, pc,
                 change, executorCalls, kvWrites, decided, queueVars>>

AgentContent(req) ==
  LET o == verifyHMAC(req, env, now)
      data == JSONparse(o.context.body)
  IN /\ request' = req
     /\ outcome' = o
     /\ UNCHANGED env
     /\ IF ~Passes("proposals/content", req, o) THEN Refuse(o)
        ELSE IF ~ContentProposalSchema(data) THEN Invalid
        ELSE SubmitContent(o.context.agentId, data.path)

AgentFlag(req, putOk) ==
  LET o == verifyHMAC(req, env, now)
      data == JSONparse(o.context.body)
  IN /\ request' = req
     /\ outcome' = o
     /\ UNCHANGED env
     /\ IF ~Passes("flags", req, o) THEN Refuse(o)
        ELSE IF ~FlagChangeSchema(data) THEN Invalid
        ELSE SubmitFlag(o.context.agentId, data.flagKey, data.value, putOk)

AgentTask(req, sendOk) ==
  LET o == verifyHMAC(req, env, now)
      data == JSONparse(o.context.body)
  IN /\ request' = req
     /\ outcome' = o
     /\ UNCHANGED env
     /\ IF ~Passes("tasks", req, o) THEN Refuse(o)
        ELSE IF ~TaskSchema(data) THEN Invalid
        ELSE SubmitTask(o.context.agentId, data.type, Null, sendOk)

AgentSeoAudit(req, sendOk) ==
  LET o == verifyHMAC(req, env, now)
  IN /\ request' = req
     /\ outcome' = o
     /\ UNCHANGED env
     /\ IF ~Passes("seo/audit", req, o) THEN Refuse(o)
        ELSE SubmitSeoAudit(o.context.agentId, sendOk)

\* the server's clock over the life of a captured request
AgentClock == <<1000, 1300, 1301>>

AdvanceClock ==
  /\ \E i \in 1..(Len(AgentClock) - 1) :
        now = AgentClock[i] /\ now' = AgentClock[i + 1]
  /\ UNCHANGED <<agentChanges, featureFlags, CONFIG_KV, nextId, pc, change,
                 response, executorCalls, kvWrites, decided, authVars,
                 queueVars>>

\* the requests sent: by a medium-risk agent and by a stranger, unsigned,
\* signed with the agent's key or signed with a guessed key
SenderIds == {"ContentAgent", "EvilAgent"}
SenderTimestamps == { <<"1","0","0","0">> }

SenderKeys(agentId) ==
  {"guess"} \cup
  (IF agentId \in DOMAIN AGENT_CONFIG
   THEN {EnvConfigured[AGENT_CONFIG[agentId].secret]} ELSE {})

SenderSignatures(agentId, timestamp, body) ==
  {Absent} \cup
  { toHex(hmacDigest(k, agentId, timestamp, body)) : k \in SenderKeys(agentId) }

AgentRequests ==
  UNION { { [agentId |-> a, timestamp |-> ts, signature |-> sig, body |-> b] :
              sig \in SenderSignatures(a, ts, b) } :
          a \in SenderIds, ts \in SenderTimestamps, b \in Range(Bodies) }

AgentInit ==
  /\ LedgerIdle
  /\ QueueIdle
  /\ now = AgentClock[1]
  /\ env \in Envs
  /\ request = NoRequest
  /\ outcome = NoOutcome

AgentNext ==
  \/ \E req \in AgentRequests : AgentContent(req)
  \/ \E req \in AgentRequests, ok \in BOOLEAN : AgentFlag(req, ok)
  \/ \E req \in AgentRequests, ok \in BOOLEAN : AgentTask(req, ok)
  \/ \E req \in AgentRequests, ok \in BOOLEAN : AgentSeoAudit(req, ok)
  \/ AdvanceClock

SpecAgent == AgentInit /\ [][AgentNext]_vars

\* C18: a step that inserts a Change or a Task, writes CONFIG_KV or the flag
\* table or sends a queue message belongs to a request the verifier
\* authenticated; a request that is not authenticated leaves all of them
\* unchanged and gets the verifier's error
C18_NoEffectWithoutAuthentication ==
  [][ /\ ( \/ agentChanges' # agentChanges \/ agentTasks' # agentTasks
           \/ CONFIG_KV' # CONFIG_KV \/ featureFlags' # featureFlags
           \/ JOBS_QUEUE' # JOBS_QUEUE \/ nextId' # nextId
           \/ nextTask' # nextTask )
         => outcome'.outcome = "Authenticated"
      /\ ( /\ outcome'.outcome # "Authenticated"
           /\ \/ AgentContent(request')
              \/ \E ok \in BOOLEAN : AgentFlag(request', ok)
              \/ \E ok \in BOOLEAN : AgentTask(request', ok)
              \/ \E ok \in BOOLEAN : AgentSeoAudit(request', ok) )
         => /\ UNCHANGED <<agentChanges, agentTasks, CONFIG_KV,
                           featureFlags, JOBS_QUEUE>>
            /\ response'.code \in {401, 500} ]_vars

C18_Witness ==
  /\ outcome.outcome = "InvalidSignature"
  /\ response.code = 401
  /\ nextTask = 2
  /\ JOBS_QUEUE # <<>>

HandledTypes == {"seo_audit", "analytics_snapshot"}
TaskTypes == {"seo_audit", "analytics_snapshot", "noop"}

\* the handlers that end with db.update(agentTasks).set({ result })
StoresResult == {"seo_audit"}

\* the agent that submits tasks, and the times a task is scheduled for
QueueAgents == {"SEOAgent"}
ScheduleTimes == {Null, MaxTime}

\* db.update(agentTasks).set(fields).where(eq(agentTasks.id, taskId)): the
\* row with that id, if there is one
UpdateTask(taskId, status, column, value) ==
  IF taskId \in DOMAIN agentTasks
  THEN [agentTasks EXCEPT ![taskId] =
          [[@ EXCEPT !.status = status] EXCEPT ![column] = value]]
  ELSE agentTasks

\* the queue hands the next n messages to handleQueueBatch as one batch;
\* the loop starts with the first of them
Deliver(n) ==
  /\ consumer.pc = "idle"
  /\ n <= Len(JOBS_QUEUE)
  /\ consumer' = [pc |-> "start", message |-> Head(JOBS_QUEUE),
                  batch |-> SubSeq(JOBS_QUEUE, 2, n), done |-> 0]
  /\ JOBS_QUEUE' = SubSeq(JOBS_QUEUE, n + 1, Len(JOBS_QUEUE))
  /\ UNCHANGED <<ledgerVars, authVars, now, agentTasks, nextTask, acked, cron>>

\* processMessage: status running, startedAt
MarkRunning ==
  /\ consumer.pc = "start"
  /\ agentTasks' = UpdateTask(consumer.message.body.taskId, "running",
                              "startedAt", now)
  /\ consumer' = [consumer EXCEPT !.pc = "handler"]
  /\ UNCHANGED <<ledgerVars, authVars, now, JOBS_QUEUE, nextTask, acked, cron>>

\* processMessage: the switch on the type; ok = FALSE is the handler
\* throwing, a type without a handler is only logged
RunHandler(ok) ==
  /\ consumer.pc = "handler"
  /\ consumer.message.body.type \in HandledTypes \/ ok
  /\ consumer' = [consumer EXCEPT !.pc = IF ok THEN "complete" ELSE "catch"]
  /\ agentTasks' =
       IF /\ ok
          /\ consumer.message.body.type \in StoresResult
          /\ consumer.message.body.taskId \in DOMAIN agentTasks
       THEN [agentTasks EXCEPT ![consumer.message.body.taskId].result =
               "output of " \o consumer.message.body.type]
       ELSE agentTasks
  /\ UNCHANGED <<ledgerVars, authVars, now, JOBS_QUEUE, nextTask, acked,
                 cron>>

\* for (const message of batch.messages): the loop goes on with the next
\* message of the batch, and handleQueueBatch returns after the last one
NextMessage(c) ==
  IF c.batch = <<>> THEN ConsumerIdle
  ELSE [pc |-> "start", message |-> Head(c.batch), batch |-> Tail(c.batch),
        done |-> c.done + 1]

\* processMessage: status completed, completedAt; then message.ack()
MarkCompleted ==
  /\ consumer.pc = "complete"
  /\ agentTasks' = UpdateTask(consumer.message.body.taskId, "completed",
                              "completedAt", now)
  /\ acked' = Append(acked, consumer.message.body.taskId)
  /\ consumer' = NextMessage(consumer)
  /\ UNCHANGED <<ledgerVars, authVars, now, JOBS_QUEUE, nextTask, cron>>

\* the row the catch block leaves: failed, the error text, completedAt
FailedTasks(taskId) ==
  IF taskId \in DOMAIN agentTasks
  THEN [agentTasks EXCEPT ![taskId] =
          [@ EXCEPT !.status = "failed", !.error = "handler error",
                    !.completedAt = now]]
  ELSE agentTasks

\* a loop whose catch block let the error out: the batch ends there
AfterCatch_Abort(c) == ConsumerIdle

\* the end of the catch block, inside the loop body: the loop goes on
AfterCatch(c) == NextMessage(c)

\* handleQueueBatch, catch: status failed, error, completedAt; then
\* message.retry(): the queue delivers the message again, until it has
\* delivered it MaxDeliveries times
CatchAndRetry ==
  /\ consumer.pc = "catch"
  /\ agentTasks' = FailedTasks(consumer.message.body.taskId)
  /\ JOBS_QUEUE' =
       IF consumer.message.attempts < MaxDeliveries
       THEN Append(JOBS_QUEUE,
                   [consumer.message EXCEPT !.attempts = @ + 1])
       ELSE JOBS_QUEUE
  /\ consumer' = AfterCatch(consumer)
  /\ UNCHANGED <<ledgerVars, authVars, now, nextTask, acked, cron>>

\* a select without eq(agentTasks.status, 'pending')
DueTasks_AnyStatus ==
  { id \in DOMAIN agentTasks :
      /\ agentTasks[id].scheduledFor # Null
      /\ agentTasks[id].scheduledFor <= now }

\* the rows processScheduledTasks selects: pending and scheduledFor <= now
\* (a NULL scheduledFor never compares true)
DueTasks ==
  { id \in DOMAIN agentTasks :
      /\ agentTasks[id].status = "pending"
      /\ agentTasks[id].scheduledFor # Null
      /\ agentTasks[id].scheduledFor <= now }

\* the orders in which a set of rows may come back (no ORDER BY)
Orders(S) ==
  { seq \in [1..Cardinality(S) -> S] :
      \A i, j \in 1..Cardinality(S) : i # j => seq[i] # seq[j] }

\* .limit(10)
SweepLimit == 10

\* the sets of rows the select may return: without ORDER BY any SweepLimit
\* of the matching rows, all of them when there are no more than that
SelectCount ==
  IF Cardinality(DueTasks) <= SweepLimit THEN Cardinality(DueTasks)
  ELSE SweepLimit

SelectDue ==
  LET due == DueTasks
      count == SelectCount
  IN  { S \in SUBSET due : Cardinality(S) = count }

\* processScheduledTasks: now = new Date() and the select, returning the
\* rows of S in the given order
SweepSelect(S, order) ==
  /\ cron.pc = "idle"
  /\ S # {}
  /\ S \subseteq DueTasks /\ Cardinality(S) = SelectCount
  /\ Len(order) = Cardinality(S)
  /\ {order[i] : i \in 1..Len(order)} = S
  /\ cron' = [pc |-> "send", now |-> now,
              tasks |-> [i \in 1..Len(order) |-> agentTasks[order[i]]]]
  /\ UNCHANGED <<ledgerVars, authVars, now, agentTasks, JOBS_QUEUE, nextTask,
                 consumer, acked>>

\* processScheduledTasks: JOBS_QUEUE.send for the next selected row;
\* sendOk = FALSE is the send throwing, which ends the sweep
SweepSend(sendOk) ==
  /\ cron.pc = "send"
  /\ IF sendOk
     THEN /\ JOBS_QUEUE' = Append(JOBS_QUEUE,
                NewMessage(Head(cron.tasks).id, Head(cron.tasks).agentId,
                           Head(cron.tasks).type))
          /\ cron' = [cron EXCEPT !.pc = "mark"]
     ELSE /\ cron' = CronIdle
          /\ UNCHANGED JOBS_QUEUE
  /\ UNCHANGED <<ledgerVars, authVars, now, agentTasks, nextTask, consumer,
                 acked>>

\* processScheduledTasks: status running, startedAt = the sweep's now
SweepMark ==
  /\ cron.pc = "mark"
  /\ agentTasks' = UpdateTask(Head(cron.tasks).id, "running", "startedAt",
                              cron.now)
  /\ cron' = IF Len(cron.tasks) = 1 THEN CronIdle
             ELSE [cron EXCEPT !.pc = "send", !.tasks = Tail(cron.tasks)]
  /\ UNCHANGED <<ledgerVars, authVars, now, JOBS_QUEUE, nextTask, consumer,
                 acked>>

QueueInit ==
  /\ LedgerIdle
  /\ QueueIdle
  /\ now = 1
  /\ env = EnvConfigured
  /\ request = NoRequest
  /\ outcome = NoOutcome

QueueNext ==
  \/ \E a \in QueueAgents, type \in TaskTypes, at \in ScheduleTimes,
        ok \in BOOLEAN :
        SubmitTask(a, type, at, ok) /\ UNCHANGED authVars
  \/ \E a \in QueueAgents, ok \in BOOLEAN :
        SubmitSeoAudit(a, ok) /\ UNCHANGED authVars
  \/ \E n \in 1..MaxBatch : Deliver(n)
  \/ MarkRunning
  \/ \E ok \in BOOLEAN : RunHandler(ok)
  \/ MarkCompleted
  \/ CatchAndRetry
  \/ /\ cron.pc = "idle"
     /\ \E S \in SelectDue : \E order \in Orders(S) : SweepSelect(S, order)
  \/ \E ok \in BOOLEAN : SweepSend(ok)
  \/ SweepMark
  \/ Tick

SpecQueue == QueueInit /\ [][QueueNext]_vars

\* the messages of a Task that are waiting or being processed
MessagesOf(id) ==
  {JOBS_QUEUE[i] : i \in {j \in 1..Len(JOBS_QUEUE) :
                            JOBS_QUEUE[j].body.taskId = id}}
  \cup (IF consumer.pc # "idle" /\ consumer.message.body.taskId = id
        THEN {consumer.message} ELSE {})
  \cup {consumer.batch[i] : i \in {j \in 1..Len(consumer.batch) :
                                     consumer.batch[j].body.taskId = id}}

\* C20: a Task is failed for good only with attempts = maxAttempts, and no
\* message of a Task is delivered after maxAttempts deliveries have failed
C20_FailedAfterMaxAttempts ==
  \A id \in DOMAIN agentTasks :
    /\ (agentTasks[id].status = "failed" /\ MessagesOf(id) = {})
          => agentTasks[id].attempts = agentTasks[id].maxAttempts
    /\ \A m \in MessagesOf(id) : m.attempts <= agentTasks[id].maxAttempts

\* the Task row of the message the consumer holds
HeldTask == consumer.message.body.taskId
HoldsTask == consumer.pc # "idle" /\ HeldTask \in DOMAIN agentTasks

\* the number of messages of a Task that are waiting or being processed
MessageCount(id) ==
  Cardinality({j \in 1..Len(JOBS_QUEUE) : JOBS_QUEUE[j].body.taskId = id})
  + (IF consumer.pc # "idle" /\ HeldTask = id THEN 1 ELSE 0)
  + Cardinality({j \in 1..Len(consumer.batch) :
                   consumer.batch[j].body.taskId = id})

\* C21: when a handler attempt fails while attempts < maxAttempts, the failure
\* handling adds one to attempts, puts the Task back to pending, stores the
\* error and requeues the message
C21_FailureRequeuesAsPending ==
  [][ ( /\ CatchAndRetry
        /\ HoldsTask
        /\ agentTasks[HeldTask].attempts < agentTasks[HeldTask].maxAttempts )
      => /\ agentTasks'[HeldTask].attempts = agentTasks[HeldTask].attempts + 1
         /\ agentTasks'[HeldTask].status = "pending"
         /\ agentTasks'[HeldTask].error # NullText
         /\ \E j \in 1..Len(JOBS_QUEUE') :
              JOBS_QUEUE'[j].body.taskId = HeldTask ]_vars

\* C22: a Task whose handler failed on the first delivery and succeeds on
\* the second is completed with attempts = 1 and its result set
C22_SecondDeliverySucceeds ==
  [][ ( /\ MarkCompleted
        /\ HoldsTask
        /\ consumer.message.attempts = 2
        /\ consumer.message.body.type = "seo_audit" )
      => /\ agentTasks'[HeldTask].status = "completed"
         /\ agentTasks'[HeldTask].attempts = 1
         /\ agentTasks'[HeldTask].result # NullText ]_vars

\* the moves of a Task's status the lifecycle allows
AllowedMoves ==
  { <<"pending", "running">>, <<"running", "completed">>,
    <<"running", "failed">>, <<"running", "pending">> }

\* C23: a Task that is completed or failed keeps that status, and every
\* change of status is a forward move or running -> pending
C23_StatusMonotonic ==
  [][ \A id \in DOMAIN agentTasks :
        agentTasks'[id].status # agentTasks[id].status
          => <<agentTasks[id].status, agentTasks'[id].status>>
                \in AllowedMoves ]_vars

\* C24: every Task has 0 <= attempts <= maxAttempts, and a Task that has
\* just been inserted is pending with attempts = 0
C24_AttemptsWithinBounds ==
  /\ [](\A id \in DOMAIN agentTasks :
          /\ 0 <= agentTasks[id].attempts
          /\ agentTasks[id].attempts <= agentTasks[id].maxAttempts)
  /\ [][ \A id \in DOMAIN agentTasks' \ DOMAIN agentTasks :
           /\ agentTasks'[id].attempts = 0
           /\ agentTasks'[id].status = "pending" ]_vars

C24_Witness ==
  \E id \in DOMAIN agentTasks :
    /\ agentTasks[id].status = "failed"
    /\ agentTasks[id].attempts = 0
    /\ MessageCount(id) = 0

\* C25: at no time are two messages of one Task waiting or being processed
C25_OneMessagePerTask ==
  \A id \in DOMAIN agentTasks : MessageCount(id) <= 1

\* C26: every message waiting or being processed carries the id of a Task row
C26_MessagesHaveTaskRows ==
  /\ \A j \in 1..Len(JOBS_QUEUE) :
       JOBS_QUEUE[j].body.taskId \in DOMAIN agentTasks
  /\ consumer.pc # "idle" => HeldTask \in DOMAIN agentTasks
  /\ \A j \in 1..Len(consumer.batch) :
       consumer.batch[j].body.taskId \in DOMAIN agentTasks

\* C27: before the time scheduledFor a scheduled Task is neither running
\* nor completed
C27_NotBeforeScheduledFor ==
  \A id \in DOMAIN agentTasks :
    (agentTasks[id].scheduledFor # Null /\ now < agentTasks[id].scheduledFor)
      => agentTasks[id].status \notin {"running", "completed"}

\* C28: when a message of a type with a handler has been processed without
\* failure, the Task is completed, completedAt is set and result holds the
\* handler's output
C28_ResultStoredOnSuccess ==
  [][ ( /\ MarkCompleted
        /\ HoldsTask
        /\ consumer.message.body.type \in {"seo_audit", "analytics_snapshot"} )
      => /\ agentTasks'[HeldTask].status = "completed"
         /\ agentTasks'[HeldTask].completedAt # Null
         /\ agentTasks'[HeldTask].result # NullText ]_vars

\* C29: a Task of a type without a handler never becomes completed
C29_UnknownTypeNeverCompleted ==
  \A id \in DOMAIN agentTasks :
    agentTasks[id].type = "noop" => agentTasks[id].status # "completed"

\* the stores an agent submission may write
SubmissionEffects ==
  <<agentChanges, agentTasks, featureFlags, CONFIG_KV, JOBS_QUEUE>>

\* an audit payload the seo_audit handler cannot iterate over: urls is
\* present and is not a list
MalformedAudit(data) == "urls" \in DOMAIN data /\ data.urls = 5

\* C30: an authenticated submission whose payload is not valid for its
\* endpoint is answered 400 and inserts no Change or Task, writes no flag
\* and sends no message, on each of the four endpoints
C30_InvalidPayloadHasNoEffect ==
  [][ LET data == JSONparse(request'.body)
      IN ( /\ outcome'.outcome = "Authenticated"
           /\ \/ AgentContent(request')
                   /\ ~({"path", "markdown", "reason"} \subseteq DOMAIN data)
              \/ AgentFlag(request', TRUE)
                   /\ ~({"flagKey", "reason"} \subseteq DOMAIN data)
              \/ AgentTask(request', TRUE)
                   /\ "type" \notin DOMAIN data
              \/ AgentSeoAudit(request', TRUE)
                   /\ MalformedAudit(data) )
         => /\ UNCHANGED SubmissionEffects
            /\ response'.code = 400 ]_vars

\* C38: every Change in status pending has riskLevel medium or high
C38_NoLowRiskPending ==
  \A id \in DOMAIN agentChanges :
    agentChanges[id].status = "pending"
      => agentChanges[id].riskLevel \in {"medium", "high"}

C38_Witness ==
  \E id \in DOMAIN agentChanges :
    /\ agentChanges[id].status = "pending"
    /\ agentChanges[id].riskLevel = "medium"
    /\ agentChanges[id].action = "content_proposal"

\* the persistent rows attributed to an agent
RowCount(a, changes, flags, tasks) ==
  Cardinality({id \in DOMAIN changes : changes[id].agentId = a})
  + Cardinality({i \in 1..Len(flags) : flags[i].changedBy = a})
  + Cardinality({id \in DOMAIN tasks : tasks[id].agentId = a})

\* C33: every authenticated request that is accepted (answered 200) leaves
\* a further row of agent_changes, feature_flags or agent_tasks attributed
\* to its agent, and no step removes a Change row or a Task row
C33_EveryAgentActionLogged ==
  [][ /\ ( /\ outcome'.outcome = "Authenticated"
           /\ response'.code = 200
           /\ \/ AgentContent(request')
              \/ AgentFlag(request', TRUE)
              \/ AgentTask(request', TRUE)
              \/ AgentSeoAudit(request', TRUE) )
         => RowCount(request'.agentId, agentChanges', featureFlags',
                     agentTasks')
              > RowCount(request'.agentId, agentChanges, featureFlags,
                         agentTasks)
      /\ DOMAIN agentChanges \subseteq DOMAIN agentChanges'
      /\ DOMAIN agentTasks \subseteq DOMAIN agentTasks' ]_vars

\* the risk class configured for the agents that send requests
ConfiguredRisk(a) == IF a = "ContentAgent" THEN "medium" ELSE "none"

\* a step that serves an agent request
AgentRequestStep ==
  \/ AgentContent(request')
  \/ \E ok \in BOOLEAN : AgentFlag(request', ok)
  \/ \E ok \in BOOLEAN : AgentTask(request', ok)
  \/ \E ok \in BOOLEAN : AgentSeoAudit(request', ok)

\* what verification leaves alone, and a refused request with it
RefusedCleanly ==
  /\ outcome'.context.agentId = Undefined
  /\ outcome'.context.agentRiskLevel = Undefined
  /\ outcome'.context.body = Undefined
  /\ UNCHANGED <<agentChanges, agentTasks, featureFlags, CONFIG_KV,
                 JOBS_QUEUE, nextId, nextTask>>

\* C35 as stated: a verified request has the claimed agentId and its
\* configured risk class attached and nothing else; a refused request has
\* nothing attached and changes no Change, Task, KV or queue state
C35_OnlyAgentAndRiskAttached ==
  [][ AgentRequestStep
      => IF outcome'.outcome = "Authenticated"
         THEN /\ outcome'.context.agentId = request'.agentId
              /\ outcome'.context.agentRiskLevel
                   = ConfiguredRisk(request'.agentId)
              /\ outcome'.context.body = Undefined
         ELSE RefusedCleanly ]_vars

\* C35, amended: a verified request has the claimed agentId, its configured
\* risk class and the raw request body attached; a request that is verified
\* and then found invalid has changed no Change, Task, KV or queue state; a
\* refused request has nothing attached and changes none of them
C35_ContextAttached ==
  [][ AgentRequestStep
      => IF outcome'.outcome = "Authenticated"
         THEN /\ outcome'.context.agentId = request'.agentId
              /\ outcome'.context.agentRiskLevel
                   = ConfiguredRisk(request'.agentId)
              /\ outcome'.context.body = request'.body
              /\ response'.code = 400
                   => UNCHANGED <<agentChanges, agentTasks, featureFlags,
                                  CONFIG_KV, JOBS_QUEUE, nextId, nextTask>>
         ELSE RefusedCleanly ]_vars

C35_Witness ==
  /\ outcome.outcome = "Authenticated"
  /\ outcome.context.agentId = "ContentAgent"
  /\ outcome.context.agentRiskLevel = "medium"
  /\ outcome.context.body = request.body
  /\ response.code = 400
  /\ nextId = 1
  /\ nextTask = 1

\* the step that ends the handling of the message in hand: the loop takes
\* the next message of the batch or returns
MessageEnds ==
  /\ consumer.pc \in {"complete", "catch"}
  /\ consumer' # consumer

C36_AckXorRetry ==
  [][ /\ MessageEnds =>
           \/ /\ consumer.pc = "complete"
              /\ acked' = Append(acked, HeldTask)
              /\ JOBS_QUEUE' = JOBS_QUEUE
           \/ /\ consumer.pc = "catch"
              /\ acked' = acked
              /\ consumer.message.attempts < MaxDeliveries =>
                   JOBS_QUEUE' = Append(JOBS_QUEUE,
                     [consumer.message EXCEPT !.attempts = @ + 1])
      /\ acked' # acked =>
           /\ MessageEnds
           /\ consumer.pc = "complete"
           /\ HeldTask \in DOMAIN agentTasks'
           /\ agentTasks'[HeldTask].status = "completed"
    ]_vars

\* ------------------------------------- a sweep over a backlog of due tasks
\* one more pending Task than a sweep selects
Backlog == SweepLimit + 1

\* the rows of a set in the order of their ids
RECURSIVE ById(_)
ById(S) ==
  IF S = {} THEN <<>>
  ELSE LET first == CHOOSE x \in S : \A y \in S : x <= y
       IN  <<first>> \o ById(S \ {first})

\* the table before the sweep: Backlog scheduled Tasks that are still
\* pending, one of them scheduled for time 1 and the others for MaxTime,
\* then a Task scheduled for later than MaxTime, a completed Task whose
\* time has come and a pending Task without scheduledFor
BacklogTable(early) ==
  [ id \in 1..(Backlog + 3) |->
      IF id <= Backlog
      THEN NewTask(id, "SEOAgent", "seo_audit",
                   IF id = early THEN 1 ELSE MaxTime)
      ELSE IF id = Backlog + 1
           THEN NewTask(id, "SEOAgent", "seo_audit", MaxTime + 1)
      ELSE IF id = Backlog + 2
           THEN [NewTask(id, "SEOAgent", "seo_audit", 1)
                   EXCEPT !.status = "completed", !.startedAt = 1,
                          !.completedAt = 1]
      ELSE NewTask(id, "SEOAgent", "seo_audit", Null) ]

SweepInit ==
  /\ LedgerIdle
  /\ \E early \in 1..Backlog : agentTasks = BacklogTable(early)
  /\ JOBS_QUEUE = <<>>
  /\ nextTask = Backlog + 4
  /\ consumer = ConsumerIdle
  /\ acked = <<>>
  /\ cron = CronIdle
  /\ now = 1
  /\ env = EnvConfigured
  /\ request = NoRequest
  /\ outcome = NoOutcome

\* the cron trigger runs processScheduledTasks as time passes; the rows of
\* a result are listed by id (SpecQueue explores every order of a result)
SweepNext ==
  \/ /\ cron.pc = "idle"
     /\ \E S \in SelectDue : SweepSelect(S, ById(S))
  \/ \E ok \in BOOLEAN : SweepSend(ok)
  \/ SweepMark
  \/ Tick

SpecSweep == SweepInit /\ [][SweepNext]_vars

\* the ids of the rows a sweep has selected and not yet handled
Selected == {cron.tasks[i].id : i \in 1..Len(cron.tasks)}

\* C31: when a sweep selects, no row that matches and is left out is
\* scheduled for an earlier time than a row that is selected
C31_EarliestFirst ==
  [][ (cron.pc = "idle" /\ cron'.pc = "send") =>
        \A p \in Selected', q \in DueTasks \ Selected' :
           agentTasks[q].scheduledFor >= agentTasks[p].scheduledFor
    ]_vars

\* a row as the select of a sweep at time t wants it
PendingAndDue(row, t) ==
  /\ row.status = "pending"
  /\ row.scheduledFor # Null
  /\ row.scheduledFor <= t

\* C34: the rows a sweep holds were pending with scheduledFor <= now when
\* it scanned, no row twice and at most 10 of them; the sweep sends one
\* message for the row in hand and then sets that row, and only that row,
\* to running; a Task that is not running has no message, and a Task with a
\* message or set to running is one whose time had come
C34_SweepTouchesOnlyDue ==
  /\ [] ( /\ Len(cron.tasks) <= 10
          /\ \A i \in 1..Len(cron.tasks) :
               /\ PendingAndDue(cron.tasks[i], cron.now)
               /\ cron.tasks[i].id \in DOMAIN agentTasks
               /\ \A j \in 1..Len(cron.tasks) :
                    cron.tasks[i].id = cron.tasks[j].id => i = j
          /\ \A id \in DOMAIN agentTasks :
               /\ MessageCount(id) <= 1
               /\ (MessageCount(id) = 1 \/ agentTasks[id].status = "running")
                    => /\ agentTasks[id].scheduledFor # Null
                       /\ agentTasks[id].scheduledFor <= now
               /\ agentTasks[id].status = "running" => MessageCount(id) = 1
               /\ (MessageCount(id) = 1 /\ agentTasks[id].status # "running")
                    => /\ cron.pc = "mark"
                       /\ Head(cron.tasks).id = id )
  /\ [][ /\ cron'.pc = "send" /\ cron.pc = "idle" =>
              /\ agentTasks' = agentTasks
              /\ JOBS_QUEUE' = JOBS_QUEUE
              /\ \A i \in 1..Len(cron'.tasks) :
                   cron'.tasks[i] = agentTasks[cron'.tasks[i].id]
         /\ JOBS_QUEUE' # JOBS_QUEUE =>
              /\ cron.pc = "send"
              /\ JOBS_QUEUE' = Append(JOBS_QUEUE,
                   [body |-> [taskId |-> Head(cron.tasks).id,
                              agentId |-> Head(cron.tasks).agentId,
                              type |-> Head(cron.tasks).type],
                    attempts |-> 1])
              /\ agentTasks' = agentTasks
         /\ agentTasks' # agentTasks =>
              /\ cron.pc = "mark"
              /\ JOBS_QUEUE' = JOBS_QUEUE
              /\ agentTasks' =
                   [agentTasks EXCEPT ![Head(cron.tasks).id] =
                      [@ EXCEPT !.status = "running",
                                !.startedAt = cron.now]]
         /\ (cron.pc = "mark" /\ cron' # cron) =>
              /\ agentTasks' # agentTasks
              /\ cron'.tasks = IF Len(cron.tasks) = 1 THEN <<>>
                               ELSE Tail(cron.tasks)
       ]_vars

\* a sweep over more than 10 due Tasks is over: 10 of them are running
\* with a message each, one is still pending, and the future, the
\* completed and the unscheduled Task are as they were
C34_Witness ==
  /\ cron.pc = "idle"
  /\ Len(JOBS_QUEUE) = 10
  /\ Cardinality({id \in DOMAIN agentTasks :
                    agentTasks[id].status = "running"}) = 10
  /\ \E id \in DOMAIN agentTasks :
        /\ PendingAndDue(agentTasks[id], now)
        /\ MessageCount(id) = 0
  /\ \E id \in DOMAIN agentTasks :
        /\ agentTasks[id].status = "completed"
        /\ MessageCount(id) = 0

\* ------------------------------------------- the queue with its scheduling
\* the cron trigger fires again and again and time passes; a send that is
\* tried again and again succeeds in the end; the queue delivers what it
\* holds and the consumer runs on
QueueFairness ==
  /\ WF_vars(Tick)
  /\ WF_vars(cron.pc = "idle" /\ \E S \in SelectDue : \E order \in Orders(S) :
                                    SweepSelect(S, order))
  /\ SF_vars(SweepSend(TRUE))
  /\ WF_vars(SweepMark)
  /\ WF_vars(\E n \in 1..MaxBatch : Deliver(n))
  /\ WF_vars(MarkRunning)
  /\ WF_vars(\E ok \in BOOLEAN : RunHandler(ok))
  /\ WF_vars(MarkCompleted)
  /\ WF_vars(CatchAndRetry)

SpecQueueFair == QueueInit /\ [][QueueNext]_vars /\ QueueFairness

\* a pending Task no message of which is waiting or being processed
Orphan(id) ==
  /\ id \in DOMAIN agentTasks
  /\ agentTasks[id].status = "pending"
  /\ MessageCount(id) = 0

\* C32: a Task row that is pending while JOBS_QUEUE holds no message for it
\* (the send after the insert failed) gets a message in the end, with or
\* without a scheduledFor
C32_OrphanResubmitted ==
  \A id \in 1..MaxTasks : Orphan(id) ~> (MessageCount(id) > 0)

====
